---- MODULE Spec2Model ----
(***************************************************************************)
(* Model of startstop.go: main starts a list of services in order, blocks  *)
(* on the signal channel sysExit, stops the services in reverse order and  *)
(* exits with globalProgramStatus.  MockService.Start / MockService.Stop   *)
(* launch a worker goroutine and race its completion (an unbuffered        *)
(* channel send) against the deadline of the context they were given.      *)
(*                                                                         *)
(* Time is counted in whole seconds.  The steps of main and the relay of a *)
(* signal take no time; time passes (Tick) only while main is blocked in a *)
(* select or on the signal channel.  When a worker's sleep and a context's *)
(* deadline end in the same second either may be observed first.           *)
(***************************************************************************)
EXTENDS Integers, Sequences, FiniteSets

VARIABLES
    services,            \* [0..n-1 -> [fakeDuration, status]]: the MockService list
    pc,                  \* position of main
    index,               \* loop variable of the start loop / the stop loop
    globalProgramStatus, \* the status flag of main
    exitCode,            \* argument of os.Exit, -1 while the process runs
    sysExit,             \* number of notifications buffered in the channel sysExit (cap 1)
    sigPending,          \* a SIGINT/SIGTERM was raised and not yet relayed to sysExit
    ctxLeft,             \* seconds left of the context of the call main is blocked in
    startWorker,         \* [0..n-1 -> [st, timer]]: goroutine launched by Start
    stopWorker,          \* [0..n-1 -> [st, timer]]: goroutine launched by Stop
    startCalls,          \* history: indices Start was invoked on, in order
    stopCalls,           \* history: indices Stop was invoked on, in order
    startErr,            \* history: indices whose Start returned an error
    stopErr,             \* history: indices whose Stop returned an error
    external             \* history: a signal was raised from outside the process

vars == <<services, pc, index, globalProgramStatus, exitCode, sysExit, sigPending,
          ctxLeft, startWorker, stopWorker, startCalls, stopCalls, startErr,
          stopErr, external>>

\* Bounds of the model.
MaxServices == 3
MaxDuration == 4

\* Deadlines main gives to every Start and to every Stop call, in seconds.
StartTimeout == 3
StopTimeout == 2

\* Capacity of the channel sysExit.
SysExitCap == 1

n == Cardinality(DOMAIN services)
Idx == DOMAIN services

NoWorker == [st |-> "none", timer |-> 0]

\* New(name, fakeDuration): a service that is not started.
New(d) == [fakeDuration |-> d, status |-> FALSE]

\* time.Sleep of the worker of Start and of the worker of Stop.
StartSleep(s) == services[s].fakeDuration
StopSleep(s) == services[s].fakeDuration + 1

Init ==
    /\ \E len \in 1..MaxServices :
         \E durs \in [0..(len - 1) -> 0..MaxDuration] :
            services = [i \in 0..(len - 1) |-> New(durs[i])]
    /\ pc = "start"
    /\ index = 0
    /\ globalProgramStatus = 0
    /\ exitCode = -1
    /\ sysExit = 0
    /\ sigPending = FALSE
    /\ ctxLeft = 0
    /\ startWorker = [i \in DOMAIN services |-> NoWorker]
    /\ stopWorker = [i \in DOMAIN services |-> NoWorker]
    /\ startCalls = <<>>
    /\ stopCalls = <<>>
    /\ startErr = {}
    /\ stopErr = {}
    /\ external = FALSE

-----------------------------------------------------------------------------
\* The start loop of main.

\* Mutant: the select of Start and Stop has no case for the context.
CtxDoneNever == FALSE

\* <-ctx.Done() is ready: the deadline of the current context has passed.
CtxDone == ctxLeft = 0

\* Seconds the earlier Start calls of the loop have taken when they all
\* returned nil: each took the sleep of its worker.
RECURSIVE ElapsedBefore(_)
ElapsedBefore(i) ==
    IF i = 0 THEN 0 ELSE ElapsedBefore(i - 1) + services[i - 1].fakeDuration

\* Mutant: one context for the whole start loop, so a call is left what the
\* earlier calls have not used.
StartDeadlineShared ==
    IF ElapsedBefore(index) < StartTimeout
      THEN StartTimeout - ElapsedBefore(index)
      ELSE 0

\* context.WithTimeout(context.Background(), time.Second*3) for each Start.
StartDeadline == StartTimeout

\* Mutant: the start loop ends as soon as a notification is buffered.
MoreToStartUnlessSignalled == index < n /\ sysExit = 0

\* for _, service := range services: a service is left to start.
MoreToStart == index < n

\* service.Start(ctx) up to its select: the context is created, the worker is
\* launched and main blocks.
StartCall ==
    /\ pc = "start"
    /\ MoreToStart
    /\ startCalls' = Append(startCalls, index)
    /\ startWorker' = [startWorker EXCEPT ![index] =
                          [st |-> "sleeping", timer |-> StartSleep(index)]]
    /\ ctxLeft' = StartDeadline
    /\ pc' = "in_start"
    /\ UNCHANGED <<services, index, globalProgramStatus, exitCode, sysExit,
                   sigPending, stopWorker, stopCalls, startErr, stopErr, external>>

\* The range loop is over: main goes on to <-sysExit.
StartLoopEnd ==
    /\ pc = "start"
    /\ ~MoreToStart
    /\ pc' = "wait"
    /\ UNCHANGED <<services, index, globalProgramStatus, exitCode, sysExit,
                   sigPending, ctxLeft, startWorker, stopWorker, startCalls,
                   stopCalls, startErr, stopErr, external>>

\* The worker of Start after its sleep: ms.status = true, then it blocks in
\* the send on doneStarting.
StartWorkerWake(s) ==
    /\ exitCode = -1
    /\ startWorker[s].st = "sleeping"
    /\ startWorker[s].timer = 0
    /\ services' = [services EXCEPT ![s].status = TRUE]
    /\ startWorker' = [startWorker EXCEPT ![s].st = "sending"]
    /\ UNCHANGED <<pc, index, globalProgramStatus, exitCode, sysExit, sigPending,
                   ctxLeft, stopWorker, startCalls, stopCalls, startErr, stopErr,
                   external>>

\* case <-doneStarting of Start: return nil, the loop goes to the next service.
StartDone ==
    /\ pc = "in_start"
    /\ startWorker[index].st = "sending"
    /\ startWorker' = [startWorker EXCEPT ![index].st = "done"]
    /\ ctxLeft' = 0
    /\ index' = index + 1
    /\ pc' = "start"
    /\ UNCHANGED <<services, globalProgramStatus, exitCode, sysExit, sigPending,
                   stopWorker, startCalls, stopCalls, startErr, stopErr, external>>

\* Mutant: the signal the process sends to itself never arrives.
generateSIGTERMLost == sigPending' = sigPending

\* generateSIGTERM: the process signals itself.
generateSIGTERM == sigPending' = TRUE

\* Mutant: a failed Start ends the run at once, without the stop loop.
AfterStartErrorNoRollback ==
    /\ pc' = "stop"
    /\ index' = n

\* Mutant: a failed Start does not leave the loop.
AfterStartErrorContinue ==
    /\ pc' = "start"
    /\ index' = index + 1

\* Where main goes after a failed Start: break leaves the loop for <-sysExit.
AfterStartError ==
    /\ pc' = "wait"
    /\ index' = index

\* Mutant: Start cancels its worker when the deadline passes.
CancelWorker ==
    startWorker' = [startWorker EXCEPT ![index] = [st |-> "done", timer |-> 0]]

\* Start returns the error and does nothing about its worker, which goes on.
LeaveWorkerRunning == startWorker' = startWorker

\* case <-ctx.Done() of Start: the error is logged, the flag is set, the
\* process signals itself and the loop is left.
StartTimedOut ==
    /\ pc = "in_start"
    /\ CtxDone
    /\ startErr' = startErr \cup {index}
    /\ globalProgramStatus' = 1
    /\ generateSIGTERM
    /\ AfterStartError
    /\ LeaveWorkerRunning
    /\ UNCHANGED <<services, exitCode, sysExit, ctxLeft, stopWorker,
                   startCalls, stopCalls, stopErr, external>>

-----------------------------------------------------------------------------
\* The signal channel.

\* A SIGINT or SIGTERM raised from outside the process.
ExternalSignal ==
    /\ exitCode = -1
    /\ sigPending' = TRUE
    /\ external' = TRUE
    /\ UNCHANGED <<services, pc, index, globalProgramStatus, exitCode, sysExit,
                   ctxLeft, startWorker, stopWorker, startCalls, stopCalls,
                   startErr, stopErr>>

\* Mutant: sysExit is made without a buffer, so the non-blocking send
\* succeeds only while main is receiving.
SendUnbuffered(c) == IF pc = "wait" /\ c < SysExitCap THEN c + 1 ELSE c

\* The non-blocking send on sysExit = make(chan os.Signal, 1): the
\* notification is kept when the buffer has room.
SendBuffered(c) == IF c < SysExitCap THEN c + 1 ELSE c

\* signal.Notify(sysExit, ...): the runtime relays a raised signal with a
\* non-blocking send, so it is dropped when the buffer is full.
RelaySignal ==
    /\ exitCode = -1
    /\ sigPending
    /\ sigPending' = FALSE
    /\ sysExit' = SendBuffered(sysExit)
    /\ UNCHANGED <<services, pc, index, globalProgramStatus, exitCode, ctxLeft,
                   startWorker, stopWorker, startCalls, stopCalls, startErr,
                   stopErr, external>>

\* Mutant: main does not block on the channel.
NoWaitForNotification == sysExit' = sysExit

\* The receive of <-sysExit: it needs a notification and takes it.
TakeNotification ==
    /\ sysExit > 0
    /\ sysExit' = sysExit - 1

\* <-sysExit: main takes one notification and enters the stop loop.
WaitSignal ==
    /\ pc = "wait"
    /\ TakeNotification
    /\ pc' = "stop"
    /\ index' = 0
    /\ UNCHANGED <<services, globalProgramStatus, exitCode, sigPending, ctxLeft,
                   startWorker, stopWorker, startCalls, stopCalls, startErr,
                   stopErr, external>>

-----------------------------------------------------------------------------
\* The stop loop of main.

\* Mutant: the stop loop walks the list forward.
ServiceIndexForward(i) == i

\* serviceIndex := (len(services) - 1) - index
ServiceIndex(i) == (n - 1) - i

\* Mutant: Stop does not look at the marker.
NotStartedUnchecked(s) == FALSE

\* if !ms.status { return nil }
NotStarted(s) == ~services[s].status

\* services[serviceIndex].Stop(ctx) up to its select, or its early return.
StopCall ==
    /\ pc = "stop"
    /\ index < n
    /\ stopCalls' = Append(stopCalls, ServiceIndex(index))
    /\ IF NotStarted(ServiceIndex(index))
         THEN /\ index' = index + 1
              /\ UNCHANGED <<pc, ctxLeft, stopWorker>>
         ELSE /\ stopWorker' = [stopWorker EXCEPT ![ServiceIndex(index)] =
                      [st |-> "sleeping", timer |-> StopSleep(ServiceIndex(index))]]
              /\ ctxLeft' = StopTimeout
              /\ pc' = "in_stop"
              /\ UNCHANGED index
    /\ UNCHANGED <<services, globalProgramStatus, exitCode, sysExit, sigPending,
                   startWorker, startCalls, startErr, stopErr, external>>

\* The worker of Stop after its sleep: it blocks in the send on doneStarting.
StopWorkerWake(s) ==
    /\ exitCode = -1
    /\ stopWorker[s].st = "sleeping"
    /\ stopWorker[s].timer = 0
    /\ stopWorker' = [stopWorker EXCEPT ![s].st = "sending"]
    /\ UNCHANGED <<services, pc, index, globalProgramStatus, exitCode, sysExit,
                   sigPending, ctxLeft, startWorker, startCalls, stopCalls,
                   startErr, stopErr, external>>

\* Mutant: a Stop that succeeds clears the flag.
StopOkResetsStatus == globalProgramStatus' = 0

\* A Stop that returned nil: the flag is left alone.
StopOkKeepsStatus == globalProgramStatus' = globalProgramStatus

\* case <-doneStarting of Stop: return nil, the loop goes to the next service.
StopDone ==
    /\ pc = "in_stop"
    /\ stopWorker[ServiceIndex(index)].st = "sending"
    /\ stopWorker' = [stopWorker EXCEPT ![ServiceIndex(index)].st = "done"]
    /\ ctxLeft' = 0
    /\ index' = index + 1
    /\ pc' = "stop"
    /\ StopOkKeepsStatus
    /\ UNCHANGED <<services, exitCode, sysExit, sigPending, startWorker,
                   startCalls, stopCalls, startErr, stopErr, external>>

\* Mutant: a failed Stop is logged but the flag is not set.
MarkStopFailedForgotten == globalProgramStatus' = globalProgramStatus

\* globalProgramStatus = 1 after a Stop that returned an error.
MarkStopFailed == globalProgramStatus' = 1

\* Mutant: a failed Stop leaves the stop loop.
AfterStopErrorBreak ==
    /\ pc' = "stop"
    /\ index' = n

\* Where main goes after a failed Stop: the loop continues.
AfterStopError ==
    /\ pc' = "stop"
    /\ index' = index + 1

\* case <-ctx.Done() of Stop: the error is logged, the flag is set and the
\* loop goes on.
StopTimedOut ==
    /\ pc = "in_stop"
    /\ CtxDone
    /\ stopErr' = stopErr \cup {ServiceIndex(index)}
    /\ MarkStopFailed
    /\ AfterStopError
    /\ UNCHANGED <<services, exitCode, sysExit, sigPending, ctxLeft, startWorker,
                   stopWorker, startCalls, stopCalls, startErr, external>>

\* os.Exit(globalProgramStatus): the process and all its goroutines end.
Exit ==
    /\ pc = "stop"
    /\ index = n
    /\ exitCode' = globalProgramStatus
    /\ pc' = "exited"
    /\ UNCHANGED <<services, index, globalProgramStatus, sysExit, sigPending,
                   ctxLeft, startWorker, stopWorker, startCalls, stopCalls,
                   startErr, stopErr, external>>

-----------------------------------------------------------------------------
\* Time.

InCall == pc \in {"in_start", "in_stop"}

\* The worker whose completion main is selecting on.
CurrentWorker ==
    IF pc = "in_start" THEN startWorker[index] ELSE stopWorker[ServiceIndex(index)]

\* main is blocked and nothing it waits for is ready or on its way.
MainBlocked ==
    \/ InCall /\ ~CtxDone /\ CurrentWorker.st # "sending"
    \/ pc = "wait" /\ sysExit = 0 /\ ~sigPending

AnySleeping ==
    \E s \in Idx : startWorker[s].st = "sleeping" \/ stopWorker[s].st = "sleeping"

\* One second of a sleeping worker passes.
Elapse(w) == IF w.st = "sleeping" THEN [w EXCEPT !.timer = w.timer - 1] ELSE w

\* One second passes: every time.Sleep and the deadline of the current
\* context come one second closer.  No sleep that is over is left waiting.
Tick ==
    /\ exitCode = -1
    /\ MainBlocked
    /\ InCall \/ AnySleeping
    /\ \A s \in Idx : /\ startWorker[s].st = "sleeping" => startWorker[s].timer > 0
                      /\ stopWorker[s].st = "sleeping" => stopWorker[s].timer > 0
    /\ startWorker' = [s \in Idx |-> Elapse(startWorker[s])]
    /\ stopWorker' = [s \in Idx |-> Elapse(stopWorker[s])]
    /\ ctxLeft' = IF InCall /\ ctxLeft > 0 THEN ctxLeft - 1 ELSE ctxLeft
    /\ UNCHANGED <<services, pc, index, globalProgramStatus, exitCode, sysExit,
                   sigPending, startCalls, stopCalls, startErr, stopErr, external>>

-----------------------------------------------------------------------------
MainStep ==
    \/ StartCall
    \/ StartLoopEnd
    \/ StartDone
    \/ StartTimedOut
    \/ WaitSignal
    \/ StopCall
    \/ StopDone
    \/ StopTimedOut
    \/ Exit

WorkerStep == \E s \in Idx : StartWorkerWake(s) \/ StopWorkerWake(s)

Next ==
    \/ StartCall
    \/ StartLoopEnd
    \/ StartDone
    \/ StartTimedOut
    \/ WaitSignal
    \/ StopCall
    \/ StopDone
    \/ StopTimedOut
    \/ Exit
    \/ \E s \in Idx : StartWorkerWake(s)
    \/ \E s \in Idx : StopWorkerWake(s)
    \/ RelaySignal
    \/ ExternalSignal
    \/ Tick

Spec == Init /\ [][Next]_vars

\* The scheduler runs every goroutine that can run, the runtime relays every
\* raised signal, and time passes.  Nothing obliges the environment to raise
\* a signal.
FairSpec ==
    /\ Spec
    /\ WF_vars(MainStep)
    /\ WF_vars(WorkerStep)
    /\ WF_vars(RelaySignal)
    /\ WF_vars(Tick)

TypeOK ==
    /\ pc \in {"start", "in_start", "wait", "stop", "in_stop", "exited"}
    /\ index \in 0..n
    /\ globalProgramStatus \in {0, 1}
    /\ exitCode \in {-1, 0, 1}
    /\ sysExit \in 0..SysExitCap
    /\ sigPending \in BOOLEAN
    /\ ctxLeft \in 0..StartTimeout
    /\ \A s \in Idx : /\ startWorker[s].timer \in 0..MaxDuration
                      /\ stopWorker[s].timer \in 0..(MaxDuration + 1)

-----------------------------------------------------------------------------
\* Vocabulary of the properties.

Exited == pc = "exited"

\* <<0, 1, ..., k-1>> and <<k-1, ..., 1, 0>>
UpTo(k) == [i \in 1..k |-> i - 1]
DownFrom(k) == [i \in 1..k |-> k - i]

IsPrefix(s, t) == Len(s) <= Len(t) /\ \A i \in 1..Len(s) : s[i] = t[i]

\* The Stop invocations on the services of index below k, in order.
StopsBelow(k) == SelectSeq(stopCalls, LAMBDA s : s < k)

Occurrences(seq, x) == Cardinality({i \in 1..Len(seq) : seq[i] = x})

\* main has taken a notification from sysExit.
Received == pc \in {"stop", "in_stop", "exited"}

\* A stop operation (the worker of Stop) was launched on service s.
StopLaunched(s) == stopWorker[s].st # "none"

-----------------------------------------------------------------------------
\* C1: when no Start and no Stop call fails, Start is invoked on the services
\* in declared order 0..n-1, Stop is invoked only after the termination
\* signal was received, in the reverse order n-1..0, and the exit status is 0.
C1_OrderedRun ==
    (startErr = {} /\ stopErr = {}) =>
        /\ IsPrefix(startCalls, UpTo(n))
        /\ IsPrefix(stopCalls, DownFrom(n))
        /\ stopCalls # <<>> => (Received /\ external /\ startCalls = UpTo(n))
        /\ Exited => (startCalls = UpTo(n) /\ stopCalls = DownFrom(n) /\ exitCode = 0)

C1_Witness ==
    /\ Exited
    /\ n = 3
    /\ startErr = {} /\ stopErr = {}
    /\ startCalls = <<0, 1, 2>> /\ stopCalls = <<2, 1, 0>>
    /\ exitCode = 0

\* C2: when the Start of service k failed, the services 0..k-1 each receive
\* exactly one Stop call, in the order k-1, k-2, ..., 0, and each of these
\* calls launches the stop operation.
C2_RollbackOrder ==
    \A k \in startErr :
        /\ IsPrefix(StopsBelow(k), DownFrom(k))
        /\ Exited => /\ StopsBelow(k) = DownFrom(k)
                     /\ \A s \in Idx : s < k => StopLaunched(s)

C2_Witness ==
    /\ Exited
    /\ n = 3
    /\ startErr = {2}
    /\ StopsBelow(2) = <<1, 0>>

\* C3: once the Start of service k has failed, Start is never invoked on a
\* service of index greater than k; the start loop is left for good.
C3_NoStartAfterFailure ==
    \A k \in startErr :
        /\ \A i \in 1..Len(startCalls) : startCalls[i] <= k
        /\ pc \notin {"start", "in_start"}

C3_Witness ==
    /\ Exited
    /\ n = 3
    /\ startErr = {0}
    /\ startCalls = <<0>>

C5_FailedStartExits == (startErr # {}) ~> (Exited /\ exitCode = 1)

C5_Witness ==
    /\ Exited
    /\ exitCode = 1
    /\ startErr = {1}
    /\ ~external
    /\ StopLaunched(0)

\* C6: when every Start succeeded and the Stop of service j fails, the stop
\* loop goes on: Stop is still called on every service, in reverse order, and
\* the exit status is 1.
C6_StopFailureContinues ==
    (startErr = {} /\ stopErr # {}) =>
        /\ globalProgramStatus = 1
        /\ IsPrefix(stopCalls, DownFrom(n))
        /\ Exited => /\ stopCalls = DownFrom(n)
                     /\ \A s \in Idx : StopLaunched(s)
                     /\ exitCode = 1

C6_Witness ==
    /\ Exited
    /\ n = 3
    /\ startErr = {}
    /\ stopErr = {2}
    /\ stopCalls = <<2, 1, 0>>
    /\ stopWorker[0].st = "done"

\* C7: at exit, every service whose marker was set (ms.status = true) has had
\* a stop operation launched on it.
C7_RunningGetsStopAttempt ==
    Exited => \A s \in Idx : services[s].status => StopLaunched(s)

\* C8: Stop launches a stop operation, and can fail, only on a service whose
\* Start was invoked and did not return a failure.
C8_StopNoOpUnlessStarted ==
    \A s \in Idx :
        (StopLaunched(s) \/ s \in stopErr) =>
            (Occurrences(startCalls, s) = 1 /\ s \notin startErr)

\* C9: the exit status is 0 exactly when no Start and no Stop call returned a
\* failure and 1 otherwise; it is read once, after the last Stop call returned.
C9_ExitStatus ==
    /\ Exited => /\ exitCode \in {0, 1}
                 /\ exitCode = 0 <=> (startErr = {} /\ stopErr = {})
    /\ exitCode # -1 => (Exited /\ index = n /\ Len(stopCalls) = n)

C9_Witness ==
    /\ Exited
    /\ exitCode = 1
    /\ startErr = {}
    /\ stopErr = {0}
    /\ n = 2

\* C10: the status flag starts at 0, only takes the values 0 and 1, and no
\* step takes it from 1 back to 0.
C10_StatusMonotonic ==
    /\ globalProgramStatus = 0
    /\ [](globalProgramStatus \in {0, 1})
    /\ [][globalProgramStatus = 1 => globalProgramStatus' = 1]_vars

C10_Witness ==
    /\ Exited
    /\ globalProgramStatus = 1
    /\ \E s, t \in Idx : s < t /\ t \in stopErr /\ stopWorker[s].st = "done"

\* Vocabulary of the later properties.

Startup == pc \in {"start", "in_start"}

\* Seconds the worker w has slept of a sleep of d seconds.
Slept(w, d) == d - w.timer

StrictlyIncreasing(seq) == \A i, j \in 1..Len(seq) : i < j => seq[i] < seq[j]
StrictlyDecreasing(seq) == \A i, j \in 1..Len(seq) : i < j => seq[i] > seq[j]

\* The worker of Start on s is about to execute ms.status = true.
WritesMarker(s) == startWorker[s].st = "sleeping" /\ startWorker[s].timer = 0

\* main is about to execute !ms.status in Stop on s.
ReadsMarker(s) == pc = "stop" /\ index < n /\ ServiceIndex(index) = s

-----------------------------------------------------------------------------
\* C11: main never waits in a Start or Stop call beyond the deadline of the
\* call, a call returns success only when its operation finished by the
\* deadline, and once main has received a notification or a Start has failed
\* the run reaches os.Exit, also when an operation is still outstanding.
C11_CallsBoundedAndExit ==
    /\ [](\A s \in Idx :
            /\ (pc = "in_start" /\ index = s) =>
                  Slept(startWorker[s], StartSleep(s)) <= StartTimeout
            /\ (pc = "in_stop" /\ ServiceIndex(index) = s) =>
                  Slept(stopWorker[s], StopSleep(s)) <= StopTimeout
            /\ startWorker[s].st = "done" => StartSleep(s) <= StartTimeout
            /\ stopWorker[s].st = "done" => StopSleep(s) <= StopTimeout)
    /\ (Received \/ startErr # {}) ~> Exited

C11_Witness ==
    /\ Exited
    /\ \E s \in startErr : startWorker[s].st = "sleeping" /\ startWorker[s].timer > 0

\* C12: on one service the sleep of a Stop worker never overlaps the sleep of
\* a Start worker, also when the Start call was abandoned at its deadline.
C12_OneOperationPerService ==
    \A s \in Idx :
        ~(startWorker[s].st = "sleeping" /\ stopWorker[s].st = "sleeping")

C12_Witness ==
    \E s \in startErr :
        /\ startWorker[s].st = "sleeping"
        /\ Occurrences(stopCalls, s) = 1
        /\ \E r \in Idx : stopWorker[r].st = "sleeping"

\* C13: a notification that arrives during the startup phase does not end
\* it: while the start loop runs no Stop is called, and main leaves the loop
\* only when Start was called on every service or a Start has failed.
C13_SignalDoesNotInterruptStartup ==
    /\ Startup => (stopCalls = <<>> /\ startCalls = UpTo(Len(startCalls)))
    /\ ~Startup => (startErr # {} \/ startCalls = UpTo(n))

C13_Witness ==
    /\ pc = "start"
    /\ n = 3
    /\ index = n
    /\ sysExit = 1
    /\ startErr = {}
    /\ startCalls = <<0, 1, 2>>
    /\ stopCalls = <<>>

\* C14: when every Start succeeded, Stop is called only after a signal was
\* raised from outside and main has taken its notification from sysExit.
C14_NoStopBeforeNotification ==
    (startErr = {} /\ stopCalls # <<>>) => (external /\ Received)

C14_Witness ==
    /\ pc = "in_stop"
    /\ startErr = {}
    /\ stopCalls = <<1>>
    /\ external

\* C15: no state has the worker of Start about to write the marker of a
\* service while main is about to read that marker in Stop.
C15_NoConcurrentMarkerAccess ==
    \A s \in Idx : ~(WritesMarker(s) /\ ReadsMarker(s))

\* C16: every call gets the full deadline: a Start whose operation is shorter
\* than StartTimeout and a Stop whose operation is shorter than StopTimeout
\* never return an error, whatever the earlier calls have taken.
C16_FreshDeadline ==
    /\ \A s \in startErr : StartSleep(s) >= StartTimeout
    /\ \A s \in stopErr : StopSleep(s) >= StopTimeout
    /\ pc = "in_start" =>
          Slept(startWorker[index], StartSleep(index)) + ctxLeft = StartTimeout
    /\ pc = "in_stop" =>
          Slept(stopWorker[ServiceIndex(index)], StopSleep(ServiceIndex(index)))
              + ctxLeft = StopTimeout

C16_Witness ==
    /\ n = 3
    /\ services[0].fakeDuration = 2
    /\ services[1].fakeDuration = 2
    /\ services[2].fakeDuration = 2
    /\ startWorker[2].st = "done"
    /\ startErr = {}

\* C17: in every run the Start calls have strictly increasing indices and
\* the Stop calls strictly decreasing indices, whatever the calls return,
\* and the call main waits in is the last one it made.
C17_StrictOrder ==
    /\ StrictlyIncreasing(startCalls)
    /\ StrictlyDecreasing(stopCalls)
    /\ pc = "in_start" => (stopCalls = <<>> /\ startCalls[Len(startCalls)] = index)
    /\ pc = "in_stop" => stopCalls[Len(stopCalls)] = ServiceIndex(index)

C17_Witness ==
    /\ Exited
    /\ n = 3
    /\ startErr = {2}
    /\ stopErr = {1}
    /\ stopCalls = <<2, 1, 0>>
    /\ stopWorker[0].st = "done"

\* C18: the worker of a Start that returned deadline exceeded is never
\* cancelled: it sleeps on or has set the marker of its service.
C18_TimedOutStartGoesOn ==
    \A s \in startErr :
        \/ startWorker[s].st = "sleeping" /\ ~services[s].status
        \/ startWorker[s].st = "sending" /\ services[s].status

\* The marker of service 1 is set after the rollback has passed service 1
\* and is stopping service 0.
C18_Witness ==
    /\ pc = "in_stop"
    /\ startErr = {1}
    /\ stopCalls = <<1, 0>>
    /\ ~StopLaunched(1)
    /\ services[1].status

\* C19: a notification buffered during the startup phase stays in sysExit
\* until main receives it, and a signal raised during the startup phase
\* leads to the exit of the run, after Stop was called on every service.
C19_SignalDuringStartupKept ==
    /\ [][(Startup /\ sysExit = 1) => sysExit' = 1]_vars
    /\ (Startup /\ (sigPending \/ sysExit = 1)) ~> Exited
    /\ [](Exited => Len(stopCalls) = n)

\* A notification sits in the buffer while the last Start call is running.
C19_Witness ==
    /\ pc = "in_start"
    /\ n = 3
    /\ startCalls = <<0, 1, 2>>
    /\ startErr = {}
    /\ sysExit = 1
    /\ ~sigPending

\* C20: no worker is left blocked in its send on doneStarting after the call
\* that launched it has returned an error.
C20_NoWorkerLeftBlocked ==
    \A s \in Idx :
        /\ s \in startErr => startWorker[s].st # "sending"
        /\ s \in stopErr => stopWorker[s].st # "sending"

====
